---- MODULE Spec2Model ----
(***************************************************************************)
(* apiMiddleware of redux-api-middleware (src/src/middleware.js): the      *)
(* asynchronous pipeline that turns one RSAA action into the calls it      *)
(* makes on its collaborators (next, getState, the [CALL_API] callables,   *)
(* the cache capability and fetch).                                        *)
(*                                                                         *)
(* JavaScript values are tagged records [k |-> <typeof>, ...], so that     *)
(* truthiness, typeof tests and property reads are computed as the code    *)
(* computes them.                                                          *)
(***************************************************************************)
EXTENDS Integers, Sequences, FiniteSets, TLC

VARIABLES
    in,        \* in[p]: the action the middleware was invoked with
    pc,        \* pc[p]: where the invocation is suspended
    loc,       \* loc[p]: its local bindings (endpoint, headers, options, res)
    trace,     \* trace[p]: the calls it has made on its collaborators, in order
    outcome,   \* outcome[p]: "pending", "returned" or "rejected" (the promise)
    extState,  \* what getState() returns now
    store,     \* the contents of the externally owned cache
    sink,      \* the order in which next received events: <<p, n>> is the
               \* n-th event of invocation p
    envSteps   \* external mutations of extState and store so far

vars == <<in, pc, loc, trace, outcome, extState, store, sink, envSteps>>

Procs == {"p1", "p2"}

\* How many times the environment may change the external state or the cache
\* contents during a run.
MaxEnvSteps == 2

-----------------------------------------------------------------------------
(* JavaScript values *)

Undef == [k |-> "undefined"]
Str(s) == [k |-> "string", v |-> s]
Num42 == [k |-> "number", v |-> 42]
Bool(b) == [k |-> "boolean", v |-> b]
Fn(name) == [k |-> "function", f |-> name]
Arr(items) == [k |-> "array", items |-> items]

\* A type descriptor given as a record {type, payload, meta, error}; it is
\* also the shape of the Flux Standard Action handed to next.
Desc(type, payload, meta, error) ==
    [k |-> "object", type |-> type, payload |-> payload, meta |-> meta,
     error |-> error]

\* v[f] in JavaScript: undefined when the value has no such property.
Get(v, f) == IF f \in DOMAIN v THEN v[f] ELSE Undef

\* ToBoolean(v).
Truthy(v) ==
    CASE v.k = "undefined" -> FALSE
      [] v.k = "boolean" -> v.v
      [] v.k = "string" -> v.v # ""
      [] v.k = "number" -> v.v # 0
      [] OTHER -> TRUE

States == {"s0", "s1"}
Keys == {"/x", "/y"}

\* The absence of a key in the cache.
Absent == [k |-> "absent"]

-----------------------------------------------------------------------------
(* The collaborators of ./validation and ./util *)

\* isRSAA(action): the action carries the [CALL_API] marker key.
isRSAA(action) == action.k = "object" /\ "callAPI" \in DOMAIN action

IsIdentifier(v) == v.k \in {"string", "symbol"}
IsCallable(v) == v.k = "function"
IsAbsent(v) == v.k = "undefined"

Credentials == {"omit", "same-origin", "include"}

\* A type descriptor is an identifier, or a record whose type is an
\* identifier and whose payload and meta, when present, are callables.
isValidTypeDescriptor(d) ==
    \/ IsIdentifier(d)
    \/ /\ d.k = "object"
       /\ IsIdentifier(Get(d, "type"))
       /\ IsAbsent(Get(d, "payload")) \/ IsCallable(Get(d, "payload"))
       /\ IsAbsent(Get(d, "meta")) \/ IsCallable(Get(d, "meta"))

IsTriple(types) == types.k = "array" /\ Len(types.items) = 3

Defect(cond, text) == IF cond THEN <<text>> ELSE <<>>

\* validateRSAA(action): every defect of the intent, in the order of the checks.
validateRSAA(action) ==
    LET c == action.callAPI
    IN  Defect(~IsTriple(c.types), "[CALL_API].types must be an array of length 3")
        \o Defect(IsTriple(c.types) /\ ~isValidTypeDescriptor(c.types.items[1]),
                  "Invalid request type")
        \o Defect(IsTriple(c.types) /\ ~isValidTypeDescriptor(c.types.items[2]),
                  "Invalid success type")
        \o Defect(IsTriple(c.types) /\ ~isValidTypeDescriptor(c.types.items[3]),
                  "Invalid failure type")
        \o Defect(c.bailout.k \notin {"undefined", "boolean", "function"},
                  "[CALL_API].bailout must be a boolean or a function")
        \o Defect(c.endpoint.k \notin {"string", "function"},
                  "[CALL_API].endpoint must be a string or a function")
        \o Defect(c.headers.k \notin {"undefined", "object", "function"},
                  "[CALL_API].headers must be a plain object or a function")
        \o Defect(~IsAbsent(c.credentials)
                    /\ ~(c.credentials.k = "string" /\ c.credentials.v \in Credentials),
                  "Invalid [CALL_API].credentials")
        \o Defect(~IsAbsent(c.cache)
                    /\ ~(/\ IsCallable(Get(c.cache, "has"))
                         /\ IsCallable(Get(c.cache, "get"))
                         /\ IsCallable(Get(c.cache, "set"))),
                  "[CALL_API].cache must expose has, get and set")

\* One descriptor in record shape, its payload transform defaulted.
normalizeDescriptor(d, defaultPayload) ==
    IF IsIdentifier(d)
    THEN Desc(d, defaultPayload, Undef, Undef)
    ELSE Desc(d.type,
              IF IsAbsent(Get(d, "payload")) THEN defaultPayload ELSE d.payload,
              Get(d, "meta"), Get(d, "error"))

\* normalizeTypeDescriptors(types): <<requestType, successType, failureType>>.
normalizeTypeDescriptors(types) ==
    << normalizeDescriptor(types.items[1], Undef),
       normalizeDescriptor(types.items[2], Fn("sourcePayload")),
       normalizeDescriptor(types.items[3], Fn("sourcePayload")) >>

\* A transform applied to (envelope, state, response?); a plain value is kept.
ApplyTransform(v, args) ==
    IF IsCallable(v) THEN [k |-> "applied", f |-> v.f, args |-> args] ELSE v

\* actionWith(descriptor, args): the event of a descriptor, payload and meta
\* computed from its transforms, type and error kept.
actionWith(descriptor, args) ==
    [descriptor EXCEPT !.payload = ApplyTransform(@, args),
                       !.meta = ApplyTransform(@, args)]

\* fakeJsonResponse(value): a synthetic ok response whose body is the value.
fakeJsonResponse(value) ==
    [k |-> "object", ok |-> TRUE, status |-> 200, body |-> value, live |-> FALSE]

InvalidRSAA(validationErrors) ==
    [k |-> "InvalidRSAA", validationErrors |-> validationErrors]
RequestError(message) == [k |-> "RequestError", message |-> message]

-----------------------------------------------------------------------------
(* The inputs the middleware is run on *)

CacheObj == [k |-> "object", tag |-> "cache", has |-> Fn("has"), get |-> Fn("get"),
             set |-> Fn("set")]
CacheNoSet == [k |-> "object", tag |-> "cache", has |-> Fn("has"), get |-> Fn("get"),
               set |-> Undef]

CallAPI(types, endpoint, bailout, headers, options, credentials, cache) ==
    [k |-> "object", types |-> types, endpoint |-> endpoint, method |-> Str("GET"),
     body |-> Undef, bailout |-> bailout, headers |-> headers, options |-> options,
     credentials |-> credentials, cache |-> cache]

RSAA(callAPI) == [k |-> "object", callAPI |-> callAPI]

\* Values that carry no [CALL_API] key: a plain action and a thunk.
NonRSAAs == {[k |-> "object", type |-> Str("INCREMENT")], Fn("thunk")}

RequestDescriptors ==
    {Str("REQ"), Desc(Str("REQ"), Fn("requestPayload"), Fn("requestMeta"), Undef)}
SuccessDescriptors ==
    {Str("OK"), Desc(Str("OK"), Fn("successPayload"), Undef, Undef)}
FailureDescriptors ==
    {Str("FAIL"), Desc(Str("FAIL"), Fn("failurePayload"), Undef, Bool(FALSE))}

\* Intents that pass validation.
ValidRSAAs ==
    { RSAA(CallAPI(Arr(<<r, s, f>>), e, b, h, o, Undef, c)) :
        r \in RequestDescriptors, s \in SuccessDescriptors, f \in FailureDescriptors,
        e \in {Str("/x"), Fn("endpointOfState"), Fn("throws")},
        b \in {Undef, Bool(TRUE), Bool(FALSE), Fn("stateFlag"), Fn("throws")},
        h \in {Undef, Fn("headersOfState"), Fn("throws")},
        o \in {Undef, Fn("optionsOfState"), Fn("throws")},
        c \in {Undef, CacheObj} }

\* The shapes of [CALL_API].types that matter to the error report.
TypesShapes ==
    { Undef, Str("REQ"), Arr(<<>>), Arr(<<Str("REQ"), Str("OK")>>),
      Arr(<<Num42, Str("OK"), Str("FAIL")>>),
      Arr(<<Desc(Num42, Undef, Undef, Undef), Str("OK"), Str("FAIL")>>),
      Arr(<<Str(""), Str("OK"), Str("FAIL")>>),
      Arr(<<Desc(Str(""), Undef, Undef, Undef), Str("OK"), Str("FAIL")>>),
      Arr(<<Str("REQ"), Str("OK"), Str("FAIL")>>),
      Arr(<<Desc(Str("REQ"), Fn("requestPayload"), Undef, Undef), Str("OK"),
            Str("FAIL")>>) }

\* Intents that fail validation.
InvalidRSAAs ==
    { a \in { RSAA(CallAPI(t, e, b, h, Undef, cr, c)) :
                t \in TypesShapes,
                e \in {Undef, Num42, Str("/x")},
                b \in {Undef, Num42},
                h \in {Undef, Num42},
                cr \in {Undef, Str("same-origin"), Str("bogus")},
                c \in {Undef, CacheNoSet} } :
        validateRSAA(a) # <<>> }

Inputs == NonRSAAs \cup ValidRSAAs \cup InvalidRSAAs

-----------------------------------------------------------------------------
(* The calls an invocation makes on its collaborators *)

NextCall(ev) == [op |-> "next", arg |-> ev]
GetStateCall(s) == [op |-> "getState", ret |-> s]
ValidateCall == [op |-> "validateRSAA"]
FnCall(field, s, ret) == [op |-> field, arg |-> s, ret |-> ret]
CacheCall(method, key, value, ret) ==
    [op |-> method, key |-> key, value |-> value, ret |-> ret]
FetchCall(url, init) == [op |-> "fetch", url |-> url, init |-> init]

Thrown(message) == [k |-> "throw", message |-> message]
Returned == [k |-> "undefined"]

\* What a [CALL_API] callable returns for the external state s.
CallFn(fn, s) ==
    CASE fn.f = "throws" -> Thrown("boom")
      [] fn.f = "stateFlag" -> Bool(s = "s1")
      [] fn.f = "endpointOfState" -> Str(IF s = "s0" THEN "/x" ELSE "/y")
      [] OTHER -> [k |-> "object", tag |-> fn.f, of |-> s]

-----------------------------------------------------------------------------
(* apiMiddleware, stage by stage *)

\* Mutant: the validator runs before the isRSAA test.
PassThroughCallsValidated(action) == <<ValidateCall, NextCall(action)>>

\* The non-RSAA branch: return next(action).
PassThroughCalls(action) == <<NextCall(action)>>

\* The type of the error request FSA of an invalid RSAA.
ErrorRequestType(types) ==
    LET requestType == IF Len(types.items) >= 1 THEN types.items[1] ELSE Undef
    IN  IF Truthy(requestType) /\ Truthy(Get(requestType, "type"))
        THEN requestType.type
        ELSE requestType

\* Whether an error request FSA is dispatched for an invalid RSAA.
CanReportInvalid(callAPI) == Truthy(callAPI.types) /\ callAPI.types.k = "array"

\* The invalid-RSAA branch.
InvalidCalls(action, validationErrors) ==
    IF CanReportInvalid(action.callAPI)
    THEN << NextCall([k |-> "object",
                      type |-> ErrorRequestType(action.callAPI.types),
                      payload |-> InvalidRSAA(validationErrors),
                      error |-> Bool(TRUE)]) >>
    ELSE <<>>

\* let { endpoint, headers, options = {} } = callAPI.
Destructure(callAPI) ==
    [endpoint |-> callAPI.endpoint, headers |-> callAPI.headers,
     options |-> IF IsAbsent(callAPI.options) THEN [k |-> "object", tag |-> "{}"]
                 ELSE callAPI.options,
     res |-> Undef, stateRead |-> "", cached |-> Undef]

NoLoc == [endpoint |-> Undef, headers |-> Undef, options |-> Undef, res |-> Undef,
          stateRead |-> "", cached |-> Undef]

Types(action) == normalizeTypeDescriptors(action.callAPI.types)
requestType(action) == Types(action)[1]
successType(action) == Types(action)[2]
failureType(action) == Types(action)[3]

\* Mutant: error: true is left out of the error descriptor.
RequestErrorDescriptorNoFlag(descriptor, message) ==
    [descriptor EXCEPT !.payload = RequestError(message)]

\* { ...requestType, payload: new RequestError(message), error: true }
RequestErrorDescriptor(descriptor, message) ==
    [descriptor EXCEPT !.payload = RequestError(message), !.error = Bool(TRUE)]

\* return next(await actionWith({...requestType, payload, error}, [action, getState()]))
RequestErrorCalls(action, s, message) ==
    << GetStateCall(s),
       NextCall(actionWith(RequestErrorDescriptor(requestType(action), message),
                           <<action, s>>)) >>

\* Mutant: a boolean bailout is ignored.
BailoutFiresCallableOnly(bailout, s) ==
    bailout.k = "function" /\ Truthy(CallFn(bailout, s))

\* The bail-out condition, for a bailout that does not throw.
BailoutFires(bailout, s) ==
    \/ bailout.k = "boolean" /\ bailout.v
    \/ bailout.k = "function" /\ Truthy(CallFn(bailout, s))

\* The calls made to evaluate a callable field against the external state.
ResolveCalls(field, value, s) ==
    IF IsCallable(value)
    THEN <<GetStateCall(s), FnCall(field, s, CallFn(value, s))>>
    ELSE <<>>

ResolveThrows(value, s) == IsCallable(value) /\ CallFn(value, s).k = "throw"

Resolved(value, s) == IF IsCallable(value) THEN CallFn(value, s) ELSE value

\* if (cache): the stage that follows endpoint resolution.
AfterEndpoint(callAPI) == IF Truthy(callAPI.cache) THEN "cacheHas" ELSE "headers"

\* Mutant: the answer of cache.has is ignored.
AfterHasAlwaysGet(hasRet) == "cacheGet"

\* if (await cache.has(endpoint)): the stage that follows the probe.
AfterHas(hasRet) == IF Truthy(hasRet) THEN "cacheGet" ELSE "headers"

\* Mutant: the cache hit dispatches the request FSA first.
CacheHitCallsWithRequest(action, s, key, value) ==
    << NextCall(actionWith(Types(action)[1], <<action, s>>)),
       NextCall(actionWith(Types(action)[2], <<action, s, fakeJsonResponse(value)>>)) >>

\* Mutant: the cache hit writes the value back to the cache.
CacheHitCallsWithSet(action, s, key, value) ==
    << CacheCall("cache.set", key, value, Returned),
       NextCall(actionWith(Types(action)[2], <<action, s, fakeJsonResponse(value)>>)) >>

\* The cache-hit branch, once cache.get has resolved to value:
\* return next(await actionWith(successType, [action, getState(), fakeJsonResponse(value)])).
CacheHitCalls(action, s, key, value) ==
    <<NextCall(actionWith(successType(action), <<action, s, fakeJsonResponse(value)>>))>>

\* Mutant: the message of the cache failure is dropped.
CacheErrorMessageBare(message) == "[CALL_API].cache API function failed"

\* The catch of the cache probe.
CacheErrorMessage(message) == "[CALL_API].cache API function failed: " \o message

\* Mutant: fetch is called without the request FSA having been dispatched.
RequestCallsSilent(action, s) == <<GetStateCall(s)>>

\* Mutant: the request FSA is dispatched twice.
RequestCallsTwice(action, s) ==
    << GetStateCall(s),
       NextCall(actionWith(Types(action)[1], <<action, s>>)),
       NextCall(actionWith(Types(action)[1], <<action, s>>)) >>

\* next(await actionWith(requestType, [action, getState()])).
RequestCalls(action, s) ==
    <<GetStateCall(s), NextCall(actionWith(requestType(action), <<action, s>>))>>

\* { ...options, method, body, credentials, headers: headers || {} }
FetchInit(callAPI, l) ==
    [rest |-> l.options, method |-> callAPI.method, body |-> callAPI.body,
     credentials |-> callAPI.credentials,
     headers |-> IF Truthy(l.headers) THEN l.headers ELSE [k |-> "object", tag |-> "{}"]]

\* Mutant: fetch is called before the request FSA is dispatched.
EmitCallsFetchFirst(action, s, l) ==
    << GetStateCall(s),
       FetchCall(l.endpoint, FetchInit(action.callAPI, l)),
       NextCall(actionWith(Types(action)[1], <<action, s>>)) >>

\* The request FSA is dispatched, then fetch is called with the resolved
\* endpoint and init.
EmitCalls(action, s, l) ==
    RequestCalls(action, s) \o <<FetchCall(l.endpoint, FetchInit(action.callAPI, l))>>

\* A response obtained from the transport.
LiveResponse(ok) ==
    [k |-> "object", ok |-> ok, status |-> IF ok THEN 200 ELSE 500,
     body |-> Str("body"), live |-> TRUE]

\* What reading `action` yields inside the initializer of the block-scoped
\* `const action` that shadows it: a ReferenceError where const has its
\* temporal dead zone, undefined where the build compiles const to var.
ShadowedActionReads == {Thrown("ReferenceError"), Undef}

\* How cache.set may end: it returns, it throws, or it returns a promise
\* that rejects (which nothing awaits).
SetOutcomes == {Returned, Thrown("set failed"), [k |-> "rejected"]}

\* const action = await actionWith(successType, [action, getState(), res]).
SuccessAction(action, envelope, s, res) ==
    actionWith(successType(action), <<envelope, s, res>>)

\* if (cache) { cache.set(endpoint, action.payload); }
SetCalls(callAPI, key, act, setRet) ==
    IF Truthy(callAPI.cache)
    THEN <<CacheCall("cache.set", key, act.payload, setRet)>>
    ELSE <<>>

\* The res.ok branch, for an envelope that could be read.
SuccessCalls(action, envelope, s, res, key, setRet) ==
    LET act == SuccessAction(action, envelope, s, res)
        sets == SetCalls(action.callAPI, key, act, setRet)
    IN  <<GetStateCall(s)>> \o sets
        \o (IF sets # <<>> /\ setRet.k = "throw" THEN <<>> ELSE <<NextCall(act)>>)

\* Mutant: a transport failure is reported through the failure descriptor.
FetchErrorCallsAsFailure(action, s, message) ==
    << GetStateCall(s),
       NextCall(actionWith(RequestErrorDescriptor(Types(action)[3], message),
                           <<action, s>>)) >>

\* The catch of the fetch call: the request was malformed, or there was a
\* network error.
FetchErrorCalls(action, s, message) == RequestErrorCalls(action, s, message)

\* Mutant: error: true is not forced on the failure descriptor.
FailureDescriptorUnforced(descriptor) == descriptor

\* { ...failureType, error: true }
FailureDescriptor(descriptor) == [descriptor EXCEPT !.error = Bool(TRUE)]

\* The non-ok branch.
FailureCalls(action, s, res) ==
    << GetStateCall(s),
       NextCall(actionWith(FailureDescriptor(failureType(action)), <<action, s, res>>)) >>

-----------------------------------------------------------------------------
(* The state machine *)

\* The events among calls reach next one after the other, after those that
\* next has already received from any invocation.
Delivered(p, calls) ==
    LET before == Len(SelectSeq(trace[p], LAMBDA c : c.op = "next"))
        new == Len(SelectSeq(calls, LAMBDA c : c.op = "next"))
    IN  sink \o [i \in 1..new |-> <<p, before + i>>]

Goto(p, calls, stage, l) ==
    /\ trace' = [trace EXCEPT ![p] = @ \o calls]
    /\ sink' = Delivered(p, calls)
    /\ pc' = [pc EXCEPT ![p] = stage]
    /\ loc' = [loc EXCEPT ![p] = l]
    /\ UNCHANGED <<in, outcome, extState, envSteps>>

Finish(p, calls, how, l) ==
    /\ trace' = [trace EXCEPT ![p] = @ \o calls]
    /\ sink' = Delivered(p, calls)
    /\ pc' = [pc EXCEPT ![p] = "done"]
    /\ loc' = [loc EXCEPT ![p] = l]
    /\ outcome' = [outcome EXCEPT ![p] = how]
    /\ UNCHANGED <<in, extState, envSteps>>

InitEnv ==
    /\ extState \in States
    /\ \E v \in {Absent, Str("cached")} : store = [key \in Keys |-> v]
    /\ envSteps = 0

\* One invocation of the middleware.
Init ==
    /\ \E a \in Inputs : in = [p \in Procs |-> IF p = "p1" THEN a ELSE Undef]
    /\ pc = [p \in Procs |-> IF p = "p1" THEN "start" ELSE "off"]
    /\ loc = [p \in Procs |-> NoLoc]
    /\ trace = [p \in Procs |-> <<>>]
    /\ outcome = [p \in Procs |-> "pending"]
    /\ sink = <<>>
    /\ InitEnv

PassThrough(p) ==
    /\ pc[p] = "start"
    /\ ~isRSAA(in[p])
    /\ Finish(p, PassThroughCalls(in[p]), "returned", loc[p])
    /\ UNCHANGED store

Invalid(p) ==
    /\ pc[p] = "start"
    /\ isRSAA(in[p])
    /\ LET validationErrors == validateRSAA(in[p])
       IN  /\ validationErrors # <<>>
           /\ Finish(p, <<ValidateCall>> \o InvalidCalls(in[p], validationErrors),
                     "returned", loc[p])
    /\ UNCHANGED store

Validated(p) ==
    /\ pc[p] = "start"
    /\ isRSAA(in[p])
    /\ validateRSAA(in[p]) = <<>>
    /\ Goto(p, <<ValidateCall>>, "bailout", Destructure(in[p].callAPI))
    /\ UNCHANGED store

Bailout(p) ==
    /\ pc[p] = "bailout"
    /\ LET bailout == in[p].callAPI.bailout
           calls == ResolveCalls("bailout", bailout, extState)
       IN  IF ResolveThrows(bailout, extState)
           THEN Finish(p, calls \o RequestErrorCalls(in[p], extState,
                           "[CALL_API].bailout function failed"), "returned", loc[p])
           ELSE IF BailoutFires(bailout, extState)
           THEN Finish(p, calls, "returned", loc[p])
           ELSE Goto(p, calls, "endpoint", loc[p])
    /\ UNCHANGED store

Endpoint(p) ==
    /\ pc[p] = "endpoint"
    /\ LET endpoint == loc[p].endpoint
           calls == ResolveCalls("endpoint", endpoint, extState)
       IN  IF ResolveThrows(endpoint, extState)
           THEN Finish(p, calls \o RequestErrorCalls(in[p], extState,
                           "[CALL_API].endpoint function failed"), "returned", loc[p])
           ELSE Goto(p, calls, AfterEndpoint(in[p].callAPI),
                     [loc[p] EXCEPT !.endpoint = Resolved(endpoint, extState)])
    /\ UNCHANGED store

\* await cache.has(endpoint): it fails, or it answers from the cache contents.
\* On a hit getState() is read before cache.get is awaited (the array literal
\* [action, getState(), fakeJsonResponse(await cache.get(endpoint))]).
CacheHas(p) ==
    /\ pc[p] = "cacheHas"
    /\ LET key == loc[p].endpoint.v
       IN  \/ Finish(p, <<CacheCall("cache.has", key, Undef, Thrown("has failed"))>>
                        \o RequestErrorCalls(in[p], extState,
                                             CacheErrorMessage("has failed")),
                     "returned", loc[p])
           \/ LET hasRet == Bool(store[key] # Absent)
                  call == CacheCall("cache.has", key, Undef, hasRet)
              IN  IF AfterHas(hasRet) = "cacheGet"
                  THEN Goto(p, <<call, GetStateCall(extState)>>, "cacheGet",
                            [loc[p] EXCEPT !.stateRead = extState])
                  ELSE Goto(p, <<call>>, AfterHas(hasRet), loc[p])
    /\ UNCHANGED store

\* await cache.get(endpoint): it fails, or it yields what the cache holds now.
CacheGet(p) ==
    /\ pc[p] = "cacheGet"
    /\ LET key == loc[p].endpoint.v
           value == IF store[key] = Absent THEN Undef ELSE store[key]
       IN  \/ Finish(p, <<CacheCall("cache.get", key, Undef, Thrown("get failed"))>>
                        \o RequestErrorCalls(in[p], extState,
                                             CacheErrorMessage("get failed")),
                     "returned", loc[p])
           \/ Finish(p, <<CacheCall("cache.get", key, Undef, value)>>
                        \o CacheHitCalls(in[p], loc[p].stateRead, key, value),
                     "returned", [loc[p] EXCEPT !.cached = value])
    /\ UNCHANGED store

Headers(p) ==
    /\ pc[p] = "headers"
    /\ LET headers == loc[p].headers
           calls == ResolveCalls("headers", headers, extState)
       IN  IF ResolveThrows(headers, extState)
           THEN Finish(p, calls \o RequestErrorCalls(in[p], extState,
                           "[CALL_API].headers function failed"), "returned", loc[p])
           ELSE Goto(p, calls, "options",
                     [loc[p] EXCEPT !.headers = Resolved(headers, extState)])
    /\ UNCHANGED store

Options(p) ==
    /\ pc[p] = "options"
    /\ LET options == loc[p].options
           calls == ResolveCalls("options", options, extState)
       IN  IF ResolveThrows(options, extState)
           THEN Finish(p, calls \o RequestErrorCalls(in[p], extState,
                           "[CALL_API].options function failed"), "returned", loc[p])
           ELSE Goto(p, calls, "request",
                     [loc[p] EXCEPT !.options = Resolved(options, extState)])
    /\ UNCHANGED store

\* The request FSA is dispatched, then fetch is called.
EmitRequest(p) ==
    /\ pc[p] = "request"
    /\ Goto(p, EmitCalls(in[p], extState, loc[p]), "fetch", loc[p])
    /\ UNCHANGED store

\* fetch throws or rejects.
FetchFails(p) ==
    /\ pc[p] = "fetch"
    /\ Finish(p, FetchErrorCalls(in[p], extState, "Network request failed"),
              "returned", [loc[p] EXCEPT !.res = Thrown("Network request failed")])
    /\ UNCHANGED store

\* fetch resolves to a response that is not ok.
FetchNotOk(p) ==
    /\ pc[p] = "fetch"
    /\ LET res == LiveResponse(FALSE)
       IN  Finish(p, FailureCalls(in[p], extState, res), "returned",
                  [loc[p] EXCEPT !.res = res])
    /\ UNCHANGED store

\* fetch resolves to an ok response.
FetchOk(p) ==
    /\ pc[p] = "fetch"
    /\ LET res == LiveResponse(TRUE)
           key == loc[p].endpoint.v
           l == [loc[p] EXCEPT !.res = res]
       IN  \E envelope \in ShadowedActionReads :
               IF envelope.k = "throw"
               THEN Finish(p, <<>>, "rejected", l) /\ UNCHANGED store
               ELSE \E setRet \in SetOutcomes :
                      LET calls == SuccessCalls(in[p], envelope, extState, res, key, setRet)
                          sets == SelectSeq(calls, LAMBDA c : c.op = "cache.set")
                      IN  /\ sets = <<>> => setRet = Returned
                          /\ Finish(p, calls,
                                    IF sets # <<>> /\ setRet.k = "throw"
                                    THEN "rejected" ELSE "returned", l)
                          /\ store' = IF sets # <<>> /\ setRet = Returned
                                      THEN [store EXCEPT ![sets[1].key] = sets[1].value]
                                      ELSE store

\* The application changes the state that getState() returns.
EnvState ==
    /\ envSteps < MaxEnvSteps
    /\ extState' \in States \ {extState}
    /\ envSteps' = envSteps + 1
    /\ UNCHANGED <<in, pc, loc, trace, outcome, store, sink>>

\* The owner of the cache writes or evicts an entry.
EnvCache ==
    /\ envSteps < MaxEnvSteps
    /\ \E key \in Keys, v \in {Absent, Str("cached")} :
          /\ v # store[key]
          /\ store' = [store EXCEPT ![key] = v]
    /\ envSteps' = envSteps + 1
    /\ UNCHANGED <<in, pc, loc, trace, outcome, extState, sink>>

Next ==
    \/ \E p \in Procs :
          \/ PassThrough(p)
          \/ Invalid(p)
          \/ Validated(p)
          \/ Bailout(p)
          \/ Endpoint(p)
          \/ CacheHas(p)
          \/ CacheGet(p)
          \/ Headers(p)
          \/ Options(p)
          \/ EmitRequest(p)
          \/ FetchFails(p)
          \/ FetchNotOk(p)
          \/ FetchOk(p)
    \/ EnvState
    \/ EnvCache

Spec == Init /\ [][Next]_vars

\* The inputs of the invocations that run concurrently: a plain action, an
\* RSAA without endpoint, and valid RSAAs for the endpoint "/x" with and
\* without the shared cache.
ConcurrentInputs ==
    { [k |-> "object", type |-> Str("INCREMENT")],
      RSAA(CallAPI(Arr(<<Str("REQ"), Str("OK"), Str("FAIL")>>), Undef, Undef, Undef,
                   Undef, Undef, Undef)),
      RSAA(CallAPI(Arr(<<Str("REQ"), Str("OK"), Str("FAIL")>>), Str("/x"), Undef, Undef,
                   Undef, Undef, Undef)),
      RSAA(CallAPI(Arr(<<Str("REQ"), Str("OK"), Str("FAIL")>>), Str("/x"), Undef, Undef,
                   Undef, Undef, CacheObj)) }

\* Every invocation of Procs is in flight, sharing next, getState and the cache.
InitConcurrent ==
    /\ in \in [Procs -> ConcurrentInputs]
    /\ pc = [p \in Procs |-> "start"]
    /\ loc = [p \in Procs |-> NoLoc]
    /\ trace = [p \in Procs |-> <<>>]
    /\ outcome = [p \in Procs |-> "pending"]
    /\ sink = <<>>
    /\ InitEnv

SpecConcurrent == InitConcurrent /\ [][Next]_vars

-----------------------------------------------------------------------------
(* Vocabulary of the properties *)

Done(p) == pc[p] = "done"
Valid(p) == isRSAA(in[p]) /\ validateRSAA(in[p]) = <<>>
FailsValidation(p) == isRSAA(in[p]) /\ validateRSAA(in[p]) # <<>>
Calls(p, op) == SelectSeq(trace[p], LAMBDA c : c.op = op)
Events(p) == Calls(p, "next")
HasCache(p) == ~IsAbsent(in[p].callAPI.cache)
ResOk(p) == loc[p].res.k = "object" /\ loc[p].res.ok
ResNotOk(p) == loc[p].res.k = "object" /\ ~loc[p].res.ok

\* The event is the one the descriptor builds for some external state.
IsRequestEvent(p, ev) ==
    \E s \in States : ev = actionWith(requestType(in[p]), <<in[p], s>>)

\* The event is built from the success descriptor and the response res.
IsSuccessEventOf(p, ev, res) ==
    /\ ev.type = successType(in[p]).type
    /\ ev.payload = ApplyTransform(successType(in[p]).payload, ev.payload.args)
    /\ Len(ev.payload.args) = 3
    /\ ev.payload.args[3] = res

\* The cache probe of p answered true / false.
HasAnswered(p, b) ==
    \E i \in DOMAIN trace[p] :
        trace[p][i].op = "cache.has" /\ trace[p][i].ret = Bool(b)

\* cache.get of p resolved (to whatever the cache held).
GetResolved(p) ==
    \E i \in DOMAIN trace[p] :
        trace[p][i].op = "cache.get" /\ trace[p][i].ret.k # "throw"

\* The first type descriptor of a [CALL_API].types value, when there is one.
HasFirst(types) == types.k = "array" /\ Len(types.items) >= 1
UsableFirst(types) == HasFirst(types) /\ isValidTypeDescriptor(types.items[1])
FirstIdentifier(types) ==
    IF IsIdentifier(types.items[1]) THEN types.items[1] ELSE types.items[1].type

-----------------------------------------------------------------------------
(* The properties *)

\* C1: a valid intent with no cache, whose bailout did not fire and whose
\* transport call returned an ok response, has delivered exactly two events
\* when it ends: the request-descriptor event, then the success-descriptor
\* event built from the live response.
C1_TwoEventsOnLiveSuccess ==
    \A p \in Procs :
        (Done(p) /\ Valid(p) /\ ~HasCache(p) /\ ResOk(p)) =>
            /\ Len(Events(p)) = 2
            /\ IsRequestEvent(p, Events(p)[1].arg)
            /\ IsSuccessEventOf(p, Events(p)[2].arg, loc[p].res)

\* C2 as stated: on a cache hit the transport is never invoked and exactly two
\* events are delivered, the request-descriptor event and then the
\* success-descriptor event built from the cached value.
C2_TwoEventsOnCacheHit ==
    \A p \in Procs :
        (Done(p) /\ Valid(p) /\ HasAnswered(p, TRUE) /\ GetResolved(p)) =>
            /\ Calls(p, "fetch") = <<>>
            /\ Len(Events(p)) = 2
            /\ IsRequestEvent(p, Events(p)[1].arg)
            /\ IsSuccessEventOf(p, Events(p)[2].arg, fakeJsonResponse(loc[p].cached))

\* C2 amended: on a cache hit (has resolved true and get resolved) the
\* transport is never invoked and exactly one event is delivered, the
\* success-descriptor event built from the original envelope, the state read
\* after the probe and the cached value wrapped as a synthetic ok response;
\* no request-descriptor event is delivered.
C2_OneEventOnCacheHit ==
    \A p \in Procs :
        (Done(p) /\ Valid(p) /\ HasAnswered(p, TRUE) /\ GetResolved(p)) =>
            /\ Calls(p, "fetch") = <<>>
            /\ Len(Events(p)) = 1
            /\ Events(p)[1].arg =
                   actionWith(successType(in[p]),
                              <<in[p], loc[p].stateRead,
                                fakeJsonResponse(Calls(p, "cache.get")[1].ret)>>)
            /\ Events(p)[1].arg.payload.args[3].ok
            /\ outcome[p] = "returned"

C2_Witness ==
    \E p \in Procs :
        /\ Done(p) /\ Valid(p) /\ HasAnswered(p, TRUE) /\ GetResolved(p)
        /\ Len(Events(p)) = 1
        /\ Calls(p, "cache.get")[1].ret = Str("cached")

\* C3: an input that is not an RSAA is handed to next once, as it is, and no
\* other collaborator (validator, getState, cache, fetch) is called.
C3_PassThrough ==
    \A p \in Procs :
        (Done(p) /\ ~isRSAA(in[p])) =>
            trace[p] = <<NextCall(in[p])>> /\ outcome[p] = "returned"

C3_Witness ==
    \E p \in Procs : Done(p) /\ ~isRSAA(in[p]) /\ Len(Events(p)) = 1

\* C4: an intent that fails validation and whose first type descriptor is
\* usable delivers exactly one event, of that descriptor's identifier, with
\* error true and an InvalidRSAA payload carrying the whole defect list, and
\* calls no other collaborator after the validator.
C4_InvalidReported ==
    \A p \in Procs :
        (Done(p) /\ FailsValidation(p) /\ UsableFirst(in[p].callAPI.types)) =>
            trace[p] =
                << ValidateCall,
                   NextCall([k |-> "object",
                             type |-> FirstIdentifier(in[p].callAPI.types),
                             payload |-> InvalidRSAA(validateRSAA(in[p])),
                             error |-> Bool(TRUE)]) >>

\* C5: an intent that fails validation and whose first type descriptor is
\* unusable (types missing, not a triple, first element missing or
\* malformed) delivers no event.
C5_InvalidDropped ==
    \A p \in Procs :
        (Done(p) /\ FailsValidation(p)
           /\ (~IsTriple(in[p].callAPI.types) \/ ~UsableFirst(in[p].callAPI.types))) =>
            Events(p) = <<>>

\* The bail-out of p fired: bailout is boolean true, or the bailout callable
\* returned a truthy value.
BailedOut(p) ==
    \/ in[p].callAPI.bailout = Bool(TRUE)
    \/ \E i \in DOMAIN trace[p] :
          trace[p][i].op = "bailout" /\ trace[p][i].ret.k # "throw"
            /\ Truthy(trace[p][i].ret)

LaterStageOps ==
    {"next", "endpoint", "headers", "options", "cache.has", "cache.get",
     "cache.set", "fetch"}

ResolverOps == {"bailout", "endpoint", "headers", "options", "cache.has", "cache.get"}

\* C6: when the bail-out of a valid intent fires, processing stops there: no
\* event is delivered and neither the endpoint, headers and options
\* callables, nor the cache, nor the transport are invoked.
C6_BailoutSilent ==
    \A p \in Procs :
        (Valid(p) /\ pc[p] \notin {"start", "bailout"} /\ BailedOut(p)) =>
            /\ Done(p) /\ outcome[p] = "returned"
            /\ \A i \in DOMAIN trace[p] : trace[p][i].op \notin LaterStageOps

C6_Witness ==
    /\ \E p \in Procs : Done(p) /\ Valid(p) /\ in[p].callAPI.bailout = Bool(TRUE)
                          /\ HasCache(p) /\ IsCallable(in[p].callAPI.endpoint)

\* The same for a bailout callable that returned a truthy value.
C6_WitnessCallable ==
    \E p \in Procs :
        /\ Done(p) /\ Valid(p) /\ IsCallable(in[p].callAPI.bailout) /\ BailedOut(p)
        /\ Events(p) = <<>>

\* C7: after a non-ok response the last event delivered has the failure
\* descriptor's identifier as its type and error true, whatever the failure
\* descriptor carries for error, and cache.set has not been called.
C7_FailureForcedError ==
    \A p \in Procs :
        (Done(p) /\ Valid(p) /\ ResNotOk(p)) =>
            LET ev == Events(p)[Len(Events(p))].arg
            IN  /\ Len(Events(p)) = 2
                /\ ev.type = failureType(in[p]).type
                /\ ev.error = Bool(TRUE)
                /\ ev.payload = ApplyTransform(failureType(in[p]).payload,
                                               <<in[p], ev.payload.args[2], loc[p].res>>)
                /\ Calls(p, "cache.set") = <<>>

C7_Witness ==
    \E p \in Procs :
        /\ Done(p) /\ Valid(p) /\ ResNotOk(p) /\ HasCache(p)
        /\ failureType(in[p]).error = Bool(FALSE)
        /\ Events(p)[2].arg.error = Bool(TRUE)

\* C8: with a cache whose probe answered false and a transport call that
\* returned an ok response, cache.set has been called exactly once when the
\* invocation ends, with the resolved endpoint as key and the payload of the
\* delivered success event as value.
C8_SetOnceWithPayload ==
    \A p \in Procs :
        (Done(p) /\ Valid(p) /\ HasCache(p) /\ HasAnswered(p, FALSE) /\ ResOk(p)) =>
            /\ Len(Calls(p, "cache.set")) = 1
            /\ Calls(p, "cache.set")[1].key = loc[p].endpoint.v
            /\ Len(Events(p)) = 2
            /\ IsSuccessEventOf(p, Events(p)[2].arg, loc[p].res)
            /\ Calls(p, "cache.set")[1].value = Events(p)[2].arg.payload

\* C9: cache.get(k) is called only after a cache.has(k) of the same
\* invocation returned true.
C9_GetOnlyAfterHasTrue ==
    \A p \in Procs : \A i \in DOMAIN trace[p] :
        trace[p][i].op = "cache.get" =>
            \E j \in 1..(i - 1) :
                /\ trace[p][j].op = "cache.has"
                /\ trace[p][j].key = trace[p][i].key
                /\ trace[p][j].ret = Bool(TRUE)

C9_Witness ==
    \E p \in Procs : Done(p) /\ Calls(p, "cache.get") # <<>>

\* C10: cache.set is called only after the transport call of the same
\* invocation returned an ok response, and only with the payload that the
\* success descriptor builds from that response: never on a cache hit, after
\* a non-ok response, a transport failure, a bail-out, a resolver failure
\* or a validation failure.
C10_SetOnlyAfterLiveOk ==
    \A p \in Procs : \A i \in DOMAIN trace[p] :
        trace[p][i].op = "cache.set" =>
            /\ Valid(p) /\ ResOk(p) /\ loc[p].res.live
            /\ \E j \in 1..(i - 1) : trace[p][j].op = "fetch"
            /\ Calls(p, "cache.get") = <<>>
            /\ ~BailedOut(p)
            /\ \A j \in DOMAIN trace[p] :
                  trace[p][j].op \in ResolverOps => trace[p][j].ret.k # "throw"
            /\ trace[p][i].key = loc[p].endpoint.v
            /\ trace[p][i].value =
                  ApplyTransform(successType(in[p]).payload, trace[p][i].value.args)
            /\ trace[p][i].value.args[3] = loc[p].res

C10_Witness ==
    \E p \in Procs : Done(p) /\ Calls(p, "cache.set") # <<>> /\ Len(Events(p)) = 2

\* The error event that the request descriptor of p builds for a message.
IsRequestErrorEvent(p, ev, message) ==
    \E s \in States :
        ev = actionWith(RequestErrorDescriptor(requestType(in[p]), message),
                        <<in[p], s>>)

\* The cache.has or cache.get call of p that failed, when there is one.
FailedCacheCalls(p) ==
    SelectSeq(trace[p], LAMBDA c : c.op \in {"cache.has", "cache.get"}
                                     /\ c.ret.k = "throw")

\* C11: when cache.has or cache.get fails, exactly one event is delivered,
\* of the request descriptor's identifier, with error true and a
\* RequestError whose message ends with the message of the failure;
\* processing stops and the transport is never invoked.
C11_CacheFailureReported ==
    \A p \in Procs :
        (Valid(p) /\ FailedCacheCalls(p) # <<>>) =>
            /\ Done(p) /\ outcome[p] = "returned"
            /\ Len(Events(p)) = 1
            /\ Events(p)[1].arg.type = requestType(in[p]).type
            /\ Events(p)[1].arg.error = Bool(TRUE)
            /\ IsRequestErrorEvent(p, Events(p)[1].arg,
                   "[CALL_API].cache API function failed: "
                       \o FailedCacheCalls(p)[1].ret.message)
            /\ Calls(p, "fetch") = <<>>
            /\ trace[p][Len(trace[p])].op = "next"

C11_Witness ==
    \E p \in Procs :
        /\ Done(p) /\ Valid(p) /\ Len(Events(p)) = 1
        /\ FailedCacheCalls(p) # <<>> /\ FailedCacheCalls(p)[1].op = "cache.get"

\* C12: whatever the collaborators do, the processing of a valid intent
\* completes normally: the promise the middleware returned never rejects.
C12_NeverRejects ==
    \A p \in Procs : (Done(p) /\ Valid(p)) => outcome[p] = "returned"

\* The cache.set call of p failed (it threw, or its promise rejected).
SetFailed(p) ==
    /\ Calls(p, "cache.set") # <<>>
    /\ Calls(p, "cache.set")[1].ret.k \in {"throw", "rejected"}

\* C13: when cache.set fails after an ok response, the success event is
\* still delivered to next, unchanged, exactly once.
C13_SetFailureHarmless ==
    \A p \in Procs :
        (Done(p) /\ Valid(p) /\ HasCache(p) /\ ResOk(p) /\ SetFailed(p)) =>
            /\ Len(Events(p)) = 2
            /\ IsSuccessEventOf(p, Events(p)[2].arg, loc[p].res)
            /\ Events(p)[2].arg.payload = Calls(p, "cache.set")[1].value

\* C14: the transport is invoked at most once per invocation, and each
\* transport call comes right after the one request-started event of the
\* invocation, built from the request descriptor, the original envelope and
\* the external state just read; no other event was delivered before.
C14_RequestBeforeFetch ==
    \A p \in Procs :
        /\ Len(Calls(p, "fetch")) <= 1
        /\ \A i \in DOMAIN trace[p] :
              trace[p][i].op = "fetch" =>
                  /\ i >= 3
                  /\ trace[p][i - 2].op = "getState"
                  /\ trace[p][i - 1] =
                        NextCall(actionWith(requestType(in[p]),
                                            <<in[p], trace[p][i - 2].ret>>))
                  /\ Len(SelectSeq(SubSeq(trace[p], 1, i), LAMBDA c : c.op = "next")) = 1

C14_Witness ==
    \E p \in Procs :
        /\ pc[p] = "fetch" /\ Len(Calls(p, "fetch")) = 1 /\ Len(Events(p)) = 1
        /\ IsCallable(requestType(in[p]).payload)

\* The kinds of event.
IsRequestStarted(p, ev) == isRSAA(in[p]) /\ Valid(p) /\ IsRequestEvent(p, ev)
IsFinal(p, ev) == ~IsRequestStarted(p, ev)

\* C15: one invocation delivers at most one request-started event and at
\* most one final event; the final event is the last thing it delivers (the
\* invocation has ended), so only a request-started event can be followed by
\* another event.
C15_AtMostOneFinal ==
    \A p \in Procs :
        LET ev == Events(p)
        IN  /\ Len(ev) <= 2
            /\ Len(ev) = 2 => IsRequestStarted(p, ev[1].arg) /\ IsFinal(p, ev[2].arg)
            /\ \A i \in DOMAIN ev :
                  IsFinal(p, ev[i].arg) =>
                      /\ i = Len(ev)
                      /\ Done(p)
                      /\ trace[p][Len(trace[p])] = ev[i]

C15_Witness ==
    \E p \in Procs :
        /\ Done(p) /\ Len(Events(p)) = 2
        /\ Events(p)[2].arg.payload.k = "RequestError"

\* The n-th event that next received, and the invocation it came from.
SinkProc(i) == sink[i][1]
SinkEvent(i) == Events(sink[i][1])[sink[i][2]].arg

\* C16: with several invocations in flight, sharing next, getState and the
\* cache, next receives the request-started event of an invocation before
\* the terminal event of that same invocation, in every interleaving: a
\* terminal event that follows a transport call has the request-started
\* event of its invocation before it, and no request-started event follows
\* the terminal event of its invocation.
C16_RequestBeforeTerminal ==
    \A j \in DOMAIN sink :
        LET p == SinkProc(j)
        IN  IsFinal(p, SinkEvent(j)) =>
                /\ Calls(p, "fetch") # <<>> =>
                      \E i \in 1..(j - 1) :
                          SinkProc(i) = p /\ IsRequestStarted(p, SinkEvent(i))
                /\ \A i \in (j + 1)..Len(sink) : SinkProc(i) # p

\* Two invocations whose events interleave: p1 starts, p2 starts and ends,
\* p1 ends.
C16_Witness ==
    /\ Len(sink) = 4
    /\ <<SinkProc(1), SinkProc(2), SinkProc(3), SinkProc(4)>> = <<"p1", "p2", "p2", "p1">>
    /\ IsRequestStarted("p1", SinkEvent(1)) /\ IsFinal("p1", SinkEvent(4))
    /\ IsRequestStarted("p2", SinkEvent(2)) /\ IsFinal("p2", SinkEvent(3))

\* The calls of a [CALL_API] callable of p that threw.
ThrownResolverCalls(p) ==
    SelectSeq(trace[p], LAMBDA c : c.op \in {"bailout", "endpoint", "headers", "options"}
                                     /\ c.ret.k = "throw")

\* C17: when the bailout, endpoint, headers or options callable throws,
\* exactly one event is delivered, of the request descriptor's identifier,
\* with error true and a RequestError payload; no request-started event is
\* delivered, no later stage runs and the transport is never invoked.
C17_ResolverFailureReported ==
    \A p \in Procs :
        (Valid(p) /\ ThrownResolverCalls(p) # <<>>) =>
            LET n == Len(trace[p])
                failed == ThrownResolverCalls(p)[1]
            IN  /\ Done(p) /\ outcome[p] = "returned"
                /\ Len(Events(p)) = 1
                /\ Events(p)[1].arg.type = requestType(in[p]).type
                /\ Events(p)[1].arg.error = Bool(TRUE)
                /\ Events(p)[1].arg.payload =
                      RequestError("[CALL_API]." \o failed.op \o " function failed")
                /\ ~IsRequestStarted(p, Events(p)[1].arg)
                /\ Calls(p, "fetch") = <<>>
                /\ n >= 3 /\ trace[p][n - 2] = failed
                /\ trace[p][n - 1].op = "getState" /\ trace[p][n].op = "next"

C17_Witness ==
    \E p \in Procs :
        /\ Done(p) /\ Valid(p) /\ Len(Events(p)) = 1
        /\ ThrownResolverCalls(p) # <<>> /\ ThrownResolverCalls(p)[1].op = "options"
        /\ HasAnswered(p, FALSE)

\* The transport call of p failed without a response.
FetchFailed(p) == loc[p].res.k = "throw"

\* C18: when the transport fails without a response, the events delivered
\* are the request-started event and then one RequestError event of the
\* request descriptor's identifier with error true; no success or failure
\* event is delivered and cache.set is not called.
C18_TransportFailureReported ==
    \A p \in Procs :
        (Done(p) /\ Valid(p) /\ FetchFailed(p)) =>
            /\ outcome[p] = "returned"
            /\ Len(Events(p)) = 2
            /\ IsRequestStarted(p, Events(p)[1].arg)
            /\ Events(p)[2].arg.type = requestType(in[p]).type
            /\ Events(p)[2].arg.error = Bool(TRUE)
            /\ Events(p)[2].arg.payload = RequestError(loc[p].res.message)
            /\ Calls(p, "cache.set") = <<>>

C18_Witness ==
    \E p \in Procs :
        /\ Done(p) /\ Valid(p) /\ FetchFailed(p) /\ HasCache(p)
        /\ Events(p)[2].arg.payload.k = "RequestError"

\* C19: after an ok response the success descriptor's transform has been
\* applied to (the action the middleware was invoked with, the external
\* state, the response): the envelope the request transform received.
C19_SuccessGetsEnvelope ==
    \A p \in Procs :
        (Done(p) /\ Valid(p) /\ ResOk(p)) =>
            /\ Len(Events(p)) = 2
            /\ Events(p)[2].arg.type = successType(in[p]).type
            /\ \E s \in States :
                  Events(p)[2].arg.payload =
                      ApplyTransform(successType(in[p]).payload, <<in[p], s, loc[p].res>>)

\* C20: an invocation that called the transport does not end without a
\* terminal event: when it has ended, next has received its request-started
\* event and exactly one terminal event, delivered last.
C20_TerminalAfterFetch ==
    \A p \in Procs :
        (Done(p) /\ Calls(p, "fetch") # <<>>) =>
            /\ Len(Events(p)) = 2
            /\ IsFinal(p, Events(p)[2].arg)
            /\ trace[p][Len(trace[p])] = Events(p)[2]

====
